---- MODULE Spec2Model ----
(***************************************************************************)
(* A model of analysis_renewal_panel.py: the quantile winsorizer, the      *)
(* tercile group assignment, the estimation call run_fe_regression and the *)
(* sequence of regressions that main() runs over one panel table.          *)
(*                                                                         *)
(* Numbers.  Every data value is a fixed-point integer: a raw value v of   *)
(* the table is held as v * Unit, Unit = 100 * 100, so that two successive *)
(* linear interpolations at whole-percent fractions are exact.  The model  *)
(* computes in exact arithmetic; floating-point rounding is not modelled.  *)
(* Quantile fractions are held in percent (0.01 is 1, 0.33 is 33).         *)
(*                                                                         *)
(* PanelOLS (linearmodels) is a library.  Its numeric output (coef, se, p, *)
(* r2) is a deterministic function of the estimation sample, so a result   *)
(* carries that sample in the field "fit" in place of the numbers.  The    *)
(* library rejects a sample whose regressor is fully absorbed by the       *)
(* entity and time effects; the model raises that error for the samples    *)
(* with fewer than two entities or fewer than two periods (where the       *)
(* two-way demeaned regressor is exactly zero) and for the empty sample.   *)
(***************************************************************************)
EXTENDS Integers, Sequences, FiniteSets, TLC

VARIABLES
    data_file,      \* the table stored at DATA_PATH (never written)
    df,             \* main(): the panel table
    df_w,           \* main(): the winsorized copy of df
    results_list,   \* main(): the collected result dictionaries
    g_idx,          \* main(): groups already taken from df.groupby("renewal_group")
    saved,          \* the content of fe_regression_summary.csv, NotSaved before
    exc,            \* the exception that left main(), NoExc if none
    pc,             \* main(): the position in the script
    s_in,           \* winsorize_series: the column s
    lower,          \* winsorize_series: the lower fraction, in percent
    upper,          \* winsorize_series: the upper fraction, in percent
    w1,             \* the column returned by winsorize_series(s)
    w2,             \* the column returned by winsorize_series(w1)
    w_exc,          \* the exception raised by winsorize_series, "none" if none
    w_pc            \* the position of the winsorizer's caller

vars == <<data_file, df, df_w, results_list, g_idx, saved, exc, pc,
          s_in, lower, upper, w1, w2, w_exc, w_pc>>
mainVars == <<data_file, df, df_w, results_list, g_idx, saved, exc, pc>>
colVars == <<s_in, lower, upper, w1, w2, w_exc, w_pc>>

----------------------------------------------------------------------------
(* Bounds of the model *)

MaxCities == 3      \* cities in the data file
MaxYears == 3       \* years a city is observed
MaxCopies == 2      \* cities that share one series
MaxLen == 3         \* entries of a column handed to winsorize_series
MaxVal == 2         \* raw values of such a column are 0..MaxVal

Unit == 100 * 100
NA == -1            \* NaN: a missing value (every data value is >= 0)

MissKinds == {"none", "treat_first", "dep_last"}
Fractions == {-1, 0, 1, 25, 50, 75, 99, 100, 101}

----------------------------------------------------------------------------
(* Program constants *)

WINSOR_LOWER == 1       \* lower=0.01
WINSOR_UPPER == 99      \* upper=0.99
TERCILE_LOW == 33       \* quantile 0.33
TERCILE_HIGH == 66      \* quantile 0.66
MIN_CITY_OBS == 3       \* city_obs_count >= 3

CITY_COL == "city"
YEAR_COL == "year"
DEP_VAR == "dep"
TREAT_VAR == "treat"
D_DEP == "d_dep"

NoExc == [kind |-> "none", label |-> "none"]
NotSaved == <<"not saved">>

----------------------------------------------------------------------------
(* pandas: Series.quantile and Series.clip *)

NonNA(f) == {i \in DOMAIN f : f[i] # NA}

\* the entries of f that are there, each with its index
Present(f) == {e \in {<<i, f[i]>> : i \in DOMAIN f} : e[2] # NA}

\* the k-th smallest (k = 0, 1, ...) of the entries xs
OrderStat(xs, k) ==
    CHOOSE v \in {e[2] : e \in xs} :
        /\ Cardinality({e \in xs : e[2] < v}) <= k
        /\ k < Cardinality({e \in xs : e[2] <= v})

\* Series.quantile(p / 100), interpolation "linear", missing entries skipped;
\* NaN when no entry is there
Quantile(f, p) ==
    LET xs == Present(f)
        n == Cardinality(xs)
    IN  IF n = 0 THEN NA
        ELSE LET h == p * (n - 1)
                 lo == h \div 100
                 fr == h % 100
                 a == OrderStat(xs, lo)
                 b == IF fr = 0 THEN a ELSE OrderStat(xs, lo + 1)
             IN  a + (fr * (b - a)) \div 100

\* a plausible slip: only the lower threshold is applied
ClipLowerOnly(f, lo, hi) ==
    [i \in DOMAIN f |-> IF f[i] = NA THEN NA
                        ELSE IF lo # NA /\ f[i] < lo THEN lo ELSE f[i]]

\* Series.clip(lower=lo, upper=hi): a NaN threshold clips nothing, a missing
\* entry stays missing, and two scalar thresholds given in reverse are swapped
Clip(f, lo, hi) ==
    LET l == IF lo # NA /\ hi # NA /\ lo > hi THEN hi ELSE lo
        u == IF lo # NA /\ hi # NA /\ lo > hi THEN lo ELSE hi
    IN  [i \in DOMAIN f |-> IF f[i] = NA THEN NA
                            ELSE IF l # NA /\ f[i] < l THEN l
                            ELSE IF u # NA /\ f[i] > u THEN u
                            ELSE f[i]]

\* Series.quantile raises ValueError for a fraction outside [0, 1]
QuantileRaises(lo, up) == lo \notin 0..100 \/ up \notin 0..100

\* a plausible slip: values outside the quantiles are dropped (set missing)
\* instead of being replaced by the quantile
TrimSeries(s, lo, up) ==
    LET ql == Quantile(s, lo)
        qh == Quantile(s, up)
    IN  [i \in DOMAIN s |-> IF s[i] = NA THEN NA
                            ELSE IF ql # NA /\ s[i] < ql THEN NA
                            ELSE IF qh # NA /\ s[i] > qh THEN NA
                            ELSE s[i]]

winsorize_series(s, lo, up) == Clip(s, Quantile(s, lo), Quantile(s, up))

----------------------------------------------------------------------------
(* The data file: the panels the model draws *)

Cities == 1..MaxCities
Copies == 1..MaxCopies
Years == 1..MaxYears

\* One city's series: n consecutive years from year 1, raw treatment year
\* and raw outcome 2 * year; "treat_first" leaves the lagged treatment of the
\* first year missing, "dep_last" the outcome of the last year.  n = 0: the
\* series has no row.
Profiles == {p \in [n : 0..MaxYears, miss : MissKinds] : p.n = 0 => p.miss = "none"}

MissRank(m) == CASE m = "none" -> 0 [] m = "treat_first" -> 1 [] m = "dep_last" -> 2

ProfileRank(p) == p.n * Cardinality(MissKinds) + MissRank(p.miss)

\* the file holds at least one row; cities are interchangeable: one panel per
\* multiset of series
Panels ==
    {pn \in [Cities -> Profiles] :
        /\ pn[1].n >= 1
        /\ \A c \in Cities : c < MaxCities => ProfileRank(pn[c]) >= ProfileRank(pn[c + 1])}

TreatOf(p, y) == IF p.miss = "treat_first" /\ y = 1 THEN NA ELSE y * Unit

DepOf(p, y) == IF p.miss = "dep_last" /\ y = p.n THEN NA ELSE 2 * y * Unit

\* the identifier of the j-th city with the c-th series
CityId(c, j) == (c - 1) * MaxCopies + j

\* pd.read_stata(DATA_PATH): one row per observed (city, year); each series
\* of the panel pn is the series of k cities
LoadedTable(pn, k) ==
    {[city |-> CityId(x[1], x[2]), year |-> x[3],
      dep |-> DepOf(pn[x[1]], x[3]), treat |-> TreatOf(pn[x[1]], x[3])] :
        x \in {z \in Cities \X (1..k) \X Years : z[3] <= pn[z[1]].n}}

----------------------------------------------------------------------------
(* main(), step 2: the derived columns *)

CitiesOf(d) == {r.city : r \in d}

YearsOf(d) == {r.year : r \in d}

CityRows(d, c) == {r \in d : r.city = c}

RECURSIVE SumCol(_, _)
SumCol(rows, col) ==
    IF rows = {} THEN 0
    ELSE LET r == CHOOSE x \in rows : TRUE
         IN  r[col] + SumCol(rows \ {r}, col)

RECURSIVE Fact(_)
Fact(n) == IF n <= 1 THEN 1 ELSE n * Fact(n - 1)

\* entity means are held as mean * MeanScale, an integer for every count of
\* observations up to MaxYears
MeanScale == Fact(MaxYears)

\* groupby(CITY_COL)[DEP_VAR].diff(): the row's outcome minus the outcome of
\* the city's previous row, missing for the first row and when either is missing
DiffDep(d, r) ==
    LET before == {x \in CityRows(d, r.city) : x.year < r.year}
    IN  IF before = {} THEN NA
        ELSE LET prev == CHOOSE x \in before : \A z \in before : z.year <= x.year
             IN  IF r.dep = NA \/ prev.dep = NA THEN NA ELSE r.dep - prev.dep

\* groupby(CITY_COL)[TREAT_VAR].mean(): the mean of the observed values, NaN
\* for a city with none
city_avg_renewal(d) ==
    [c \in CitiesOf(d) |->
        LET obs == {r \in CityRows(d, c) : r.treat # NA}
        IN  IF obs = {} THEN NA
            ELSE SumCol(obs, TREAT_VAR) * (MeanScale \div Cardinality(obs))]

\* a plausible slip: ties at a cutoff go to the upper label
map_renewal_group_strict(x, q1, q2) ==
    IF x # NA /\ q1 # NA /\ x < q1 THEN "low"
    ELSE IF x # NA /\ q2 # NA /\ x < q2 THEN "middle"
    ELSE "high"

\* a comparison with NaN is False
map_renewal_group(x, q1, q2) ==
    IF x # NA /\ q1 # NA /\ x <= q1 THEN "low"
    ELSE IF x # NA /\ q2 # NA /\ x <= q2 THEN "middle"
    ELSE "high"

renewal_group_map(d) ==
    LET avg == city_avg_renewal(d)
        q1 == Quantile(avg, TERCILE_LOW)
        q2 == Quantile(avg, TERCILE_HIGH)
    IN  [c \in CitiesOf(d) |-> map_renewal_group(avg[c], q1, q2)]

\* groupby(CITY_COL)[YEAR_COL].transform("count"): the rows of the city
\* whose year is there
city_obs_count(d, c) == Cardinality({r \in CityRows(d, c) : r.year # NA})

Preprocessed(d) ==
    LET gmap == renewal_group_map(d)
    IN  {[city |-> r.city, year |-> r.year, dep |-> r.dep, treat |-> r.treat,
          d_dep |-> DiffDep(d, r),
          renewal_group |-> gmap[r.city],
          city_obs_count |-> city_obs_count(d, r.city)] : r \in d}

----------------------------------------------------------------------------
(* run_fe_regression *)

\* df[cols].dropna(): the rows with entity, period, dependent and treatment
\* value all there
EstimationSample(d, dep, treat) ==
    {r \in d : r.city # NA /\ r.year # NA /\ r[dep] # NA /\ r[treat] # NA}

\* what PanelOLS(...).fit(...) is handed: (entity, period, y, x) per row
FitInput(data, dep, treat) == {<<r.city, r.year, r[dep], r[treat]>> : r \in data}

\* PanelOLS raises on a sample it cannot estimate; run_fe_regression itself
\* checks nothing before the call and catches nothing
LibraryError(data) ==
    IF data = {} THEN "ValueError"
    ELSE IF Cardinality(CitiesOf(data)) < 2 \/ Cardinality(YearsOf(data)) < 2
         THEN "AbsorbingEffectError"
    ELSE "none"

\* the outcome of one call: the exception that leaves it, or the result_dict
run_fe_regression(d, dep, treat, sample_label) ==
    LET data == EstimationSample(d, dep, treat)
        err == LibraryError(data)
    IN  IF err # "none"
        THEN [raised |-> TRUE, kind |-> err]
        ELSE [raised |-> FALSE,
              result |-> [sample |-> sample_label,
                          dep_var |-> dep,
                          treat_var |-> treat,
                          fit |-> FitInput(data, dep, treat),
                          nobs |-> Cardinality(data),
                          n_city |-> Cardinality(CitiesOf(data)),
                          n_year |-> Cardinality(YearsOf(data))]]

----------------------------------------------------------------------------
(* main(), step 5: the samples of the configurations *)

\* df_w = df.copy() with both core columns winsorized over all rows
WinsorizedFrame(d) ==
    LET wdep == winsorize_series([r \in d |-> r.dep], WINSOR_LOWER, WINSOR_UPPER)
        wtreat == winsorize_series([r \in d |-> r.treat], WINSOR_LOWER, WINSOR_UPPER)
    IN  {[r EXCEPT !.dep = wdep[r], !.treat = wtreat[r]] : r \in d}

\* a plausible slip: df_w = df without .copy(), the columns are overwritten in df
FrameAliased(d, dw) == dw

\* df after df_w = df.copy() and the two assignments to df_w: untouched
FrameAfterWinsor(d, dw) == d

\* df[df["city_obs_count"] >= 3]
LongFrame(d) == {r \in d : r.city_obs_count >= MIN_CITY_OBS}

\* the keys of df.groupby("renewal_group"), in the sorted order groupby yields
GroupKeys(d) ==
    SelectSeq(<<"high", "low", "middle">>, LAMBDA g : \E r \in d : r.renewal_group = g)

GroupFrame(d, g) == {r \in d : r.renewal_group = g}

HeteroLabel(g) ==
    CASE g = "low" -> "hetero_renewal_low"
      [] g = "middle" -> "hetero_renewal_middle"
      [] g = "high" -> "hetero_renewal_high"

hetero_keys == <<"hetero_renewal_low", "hetero_renewal_middle", "hetero_renewal_high">>

\* a plausible slip: the result is put at the front of the list
InsertFirst(list, r) == <<r>> \o list

\* results_list.append(r)
AppendResult(list, r) == Append(list, r)

----------------------------------------------------------------------------
(* main() as a state machine *)

Init ==
    /\ \E pn \in Panels, k \in Copies : data_file = LoadedTable(pn, k)
    /\ df = data_file
    /\ df_w = {}
    /\ results_list = <<>>
    /\ g_idx = 0
    /\ saved = NotSaved
    /\ exc = NoExc
    /\ pc = "preprocess"
    /\ s_in = <<>> /\ lower = WINSOR_LOWER /\ upper = WINSOR_UPPER
    /\ w1 = <<>> /\ w2 = <<>> /\ w_exc = "none" /\ w_pc = "idle"

\* one call of run_fe_regression and the append that follows it; an
\* exception leaves main(), which has no handler
CallAndAppend(d, dep, label, next) ==
    LET out == run_fe_regression(d, dep, TREAT_VAR, label)
    IN  IF out.raised
        THEN /\ exc' = [kind |-> out.kind, label |-> label]
             /\ pc' = "raised"
             /\ UNCHANGED results_list
        ELSE /\ results_list' = AppendResult(results_list, out.result)
             /\ pc' = next
             /\ UNCHANGED exc

\* steps 2.1-2.4
Preprocess ==
    /\ pc = "preprocess"
    /\ df' = Preprocessed(df)
    /\ pc' = "baseline"
    /\ UNCHANGED <<data_file, df_w, results_list, g_idx, saved, exc, colVars>>

\* step 5.1
RunBaseline ==
    /\ pc = "baseline"
    /\ CallAndAppend(df, DEP_VAR, "baseline_level", "delta")
    /\ UNCHANGED <<data_file, df, df_w, g_idx, saved, colVars>>

\* step 5.2
RunDelta ==
    /\ pc = "delta"
    /\ CallAndAppend(df, D_DEP, "delta_dep", "winsor")
    /\ UNCHANGED <<data_file, df, df_w, g_idx, saved, colVars>>

\* step 5.3
RunWinsor ==
    /\ pc = "winsor"
    /\ df_w' = WinsorizedFrame(df)
    /\ df' = FrameAfterWinsor(df, df_w')
    /\ CallAndAppend(df_w', DEP_VAR, "winsor_1_99", "long")
    /\ UNCHANGED <<data_file, g_idx, saved, colVars>>

\* step 5.4
RunLong ==
    /\ pc = "long"
    /\ CallAndAppend(LongFrame(df), DEP_VAR, "city_obs>=3", "hetero")
    /\ UNCHANGED <<data_file, df, df_w, g_idx, saved, colVars>>

\* step 5.5, one pass of the loop over the groups
RunHetero ==
    /\ pc = "hetero"
    /\ g_idx < Len(GroupKeys(df))
    /\ LET g == GroupKeys(df)[g_idx + 1]
       IN  CallAndAppend(GroupFrame(df, g), DEP_VAR, HeteroLabel(g), "hetero")
    /\ g_idx' = g_idx + 1
    /\ UNCHANGED <<data_file, df, df_w, saved, colVars>>

\* the loop is exhausted; steps 6 and 7: the summary is written, the baseline
\* coefficient is plotted
SaveResults ==
    /\ pc = "hetero"
    /\ g_idx = Len(GroupKeys(df))
    /\ saved' = results_list
    /\ pc' = "plot_hetero"
    /\ UNCHANGED <<data_file, df, df_w, results_list, g_idx, exc, colVars>>

\* step 8: next(item for item in results_list if item["sample"] == k) for
\* each of hetero_keys; next() on an exhausted generator raises StopIteration
PlotHetero ==
    /\ pc = "plot_hetero"
    /\ LET missing == {i \in 1..Len(hetero_keys) :
                          \A j \in 1..Len(results_list) : results_list[j].sample # hetero_keys[i]}
       IN  IF missing = {}
           THEN pc' = "done" /\ UNCHANGED exc
           ELSE /\ exc' = [kind |-> "StopIteration",
                          label |-> hetero_keys[CHOOSE i \in missing : \A j \in missing : i <= j]]
                /\ pc' = "raised"
    /\ UNCHANGED <<data_file, df, df_w, results_list, g_idx, saved, colVars>>

Next ==
    \/ Preprocess
    \/ RunBaseline
    \/ RunDelta
    \/ RunWinsor
    \/ RunLong
    \/ RunHetero
    \/ SaveResults
    \/ PlotHetero

Spec == Init /\ [][Next]_vars

----------------------------------------------------------------------------
(* winsorize_series on its own: any column, any pair of fractions, and a  *)
(* second call on the column the first call returned                      *)

ColVals == {NA} \cup {v * Unit : v \in 0..MaxVal}

Columns == UNION {[1..n -> ColVals] : n \in 0..MaxLen}

InitW ==
    /\ s_in \in Columns
    /\ lower \in Fractions
    /\ upper \in Fractions
    /\ w1 = <<>> /\ w2 = <<>> /\ w_exc = "none" /\ w_pc = "call1"
    /\ data_file = {} /\ df = {} /\ df_w = {} /\ results_list = <<>>
    /\ g_idx = 0 /\ saved = NotSaved /\ exc = NoExc /\ pc = "idle"

\* w1 = winsorize_series(s, lower, upper)
WinsorizeOnce ==
    /\ w_pc = "call1"
    /\ IF QuantileRaises(lower, upper)
       THEN w_exc' = "ValueError" /\ w_pc' = "raised" /\ UNCHANGED w1
       ELSE w1' = winsorize_series(s_in, lower, upper) /\ w_pc' = "call2" /\ UNCHANGED w_exc
    /\ UNCHANGED <<s_in, lower, upper, w2, mainVars>>

\* w2 = winsorize_series(w1, lower, upper)
WinsorizeAgain ==
    /\ w_pc = "call2"
    /\ w2' = winsorize_series(w1, lower, upper)
    /\ w_pc' = "done"
    /\ UNCHANGED <<s_in, lower, upper, w1, w_exc, mainVars>>

NextW == WinsorizeOnce \/ WinsorizeAgain

SpecW == InitW /\ [][NextW]_vars

----------------------------------------------------------------------------
(* Properties of the run sequence *)

FixedLabels == <<"baseline_level", "delta_dep", "winsor_1_99", "city_obs>=3">>

ConfigLabels ==
    {FixedLabels[i] : i \in 1..Len(FixedLabels)} \cup {hetero_keys[i] : i \in 1..Len(hetero_keys)}

Preprocessing == pc = "preprocess"

Labels(list) == [i \in 1..Len(list) |-> list[i].sample]

HasResult(label) == \E i \in 1..Len(results_list) : results_list[i].sample = label

\* the labels main() runs over the table d, in the order it runs them
RunSequence(d) ==
    FixedLabels \o [i \in 1..Len(GroupKeys(d)) |-> HeteroLabel(GroupKeys(d)[i])]

IsPrefix(a, b) == Len(a) <= Len(b) /\ \A i \in 1..Len(a) : a[i] = b[i]

\* the frame and the dependent column of the configuration with this label,
\* taken from the preprocessed table d
ConfigFrame(label, d) ==
    CASE label = "baseline_level" -> d
      [] label = "delta_dep" -> d
      [] label = "winsor_1_99" -> WinsorizedFrame(d)
      [] label = "city_obs>=3" -> LongFrame(d)
      [] label = "hetero_renewal_low" -> GroupFrame(d, "low")
      [] label = "hetero_renewal_middle" -> GroupFrame(d, "middle")
      [] label = "hetero_renewal_high" -> GroupFrame(d, "high")

ConfigDep(label) == IF label = "delta_dep" THEN D_DEP ELSE DEP_VAR

\* the estimation call for this label has been made
Called(label) == HasResult(label) \/ exc.label = label

\* C1 (as claimed): when the estimation call of a configuration fails, the
\* failure is recorded against its label in the result collection and the
\* session goes on to the remaining configurations and to the collection
\* being produced; it does not end with the exception.
C1_FailureRecordedRunContinues ==
    (exc # NoExc /\ exc.label \in ConfigLabels /\ exc.kind # "StopIteration") =>
        (HasResult(exc.label) /\ pc # "raised")

\* a step in which one estimation call returned
CallReturned ==
    \/ pc \in {"baseline", "delta", "winsor", "long"} /\ pc' \in {"delta", "winsor", "long", "hetero"}
    \/ pc = "hetero" /\ pc' = "hetero" /\ g_idx' = g_idx + 1

C2_PrefixOfRunSequence ==
    /\ Preprocessing => results_list = <<>>
    /\ ~Preprocessing => IsPrefix(Labels(results_list), RunSequence(df))
    /\ \A i, j \in 1..Len(results_list) : i # j => results_list[i].sample # results_list[j].sample

C2_AppendOnly ==
    /\ CallReturned =>
          /\ Len(results_list') = Len(results_list) + 1
          /\ SubSeq(results_list', 1, Len(results_list)) = results_list
    /\ ~CallReturned => results_list' = results_list

C3_OneLabelPerCity ==
    ~Preprocessing =>
        LET avg == city_avg_renewal(data_file)
            q1 == Quantile(avg, TERCILE_LOW)
            q2 == Quantile(avg, TERCILE_HIGH)
        IN  \A c \in CitiesOf(data_file) :
                LET labs == {r.renewal_group : r \in CityRows(df, c)}
                IN  /\ Cardinality(CityRows(df, c)) = Cardinality(CityRows(data_file, c))
                    /\ Cardinality(labs) = 1
                    /\ labs \subseteq {"low", "middle", "high"}
                    /\ (avg[c] # NA /\ avg[c] <= q1) => labs = {"low"}
                    /\ (avg[c] # NA /\ avg[c] > q1 /\ avg[c] <= q2) => labs = {"middle"}
                    /\ (avg[c] = NA \/ avg[c] > q2) => labs = {"high"}

\* C3 witness: a city whose mean equals the lower cutoff next to a city
\* without any observed treatment value
C3_Witness ==
    /\ pc = "baseline"
    /\ LET avg == city_avg_renewal(data_file)
       IN  /\ \E c \in DOMAIN avg : avg[c] = NA
           /\ \E c \in DOMAIN avg : avg[c] # NA /\ avg[c] = Quantile(avg, TERCILE_LOW)

\* the sample left of a configuration's frame after the rows with a missing
\* value are dropped offers no variation
Degenerate(label) ==
    LET data == EstimationSample(ConfigFrame(label, df), ConfigDep(label), TREAT_VAR)
    IN  Cardinality(CitiesOf(data)) < 2 \/ Cardinality(YearsOf(data)) < 2

\* C7 (as claimed): an estimation call on a sample with fewer than 2 distinct
\* entities or fewer than 2 distinct periods fails with
\* InsufficientVariationError and leaves no result for its label.
C7_InsufficientVariationError ==
    ~Preprocessing =>
        \A label \in ConfigLabels :
            (Called(label) /\ Degenerate(label)) =>
                (exc = [kind |-> "InsufficientVariationError", label |-> label] /\ ~HasResult(label))

\* step (e) is over
AfterHetero == pc \in {"plot_hetero", "done"} \/ exc.kind = "StopIteration"

\* C8 (as claimed): after step (e) the collection holds exactly one entry for
\* each of hetero_renewal_low, hetero_renewal_middle and hetero_renewal_high.
C8_OneEntryPerGroupLabel ==
    AfterHetero =>
        \A k \in 1..Len(hetero_keys) :
            Cardinality({i \in 1..Len(results_list) : results_list[i].sample = hetero_keys[k]}) = 1

\* C9 (as claimed): every city with a row in the estimation sample of
\* city_obs>=3 has at least 3 rows in that estimation sample.
C9_ThreeUsableObservations ==
    \A i \in 1..Len(results_list) :
        results_list[i].sample = "city_obs>=3" =>
            \A x \in results_list[i].fit :
                Cardinality({z \in results_list[i].fit : z[1] = x[1]}) >= MIN_CITY_OBS

\* C10: no run changes what another run reads: the table df is, from the end
\* of preprocessing on, the preprocessed data file, also after the winsorized
\* run; and the result under each label is the result of the estimation call
\* on that label's sample taken from the preprocessed data file alone,
\* whatever ran before it.
C10_RunsShareNoState ==
    ~Preprocessing =>
        LET d0 == Preprocessed(data_file)
        IN  /\ df = d0
            /\ \A i \in 1..Len(results_list) :
                  LET label == results_list[i].sample
                      out == run_fe_regression(ConfigFrame(label, d0), ConfigDep(label),
                                               TREAT_VAR, label)
                  IN  ~out.raised /\ results_list[i] = out.result

\* C10 witness: the winsorized run changed values in its copy, and the runs
\* (d) and (e) have been made after it
C10_Witness ==
    /\ HasResult("winsor_1_99")
    /\ HasResult("city_obs>=3")
    /\ \E k \in 1..Len(hetero_keys) : HasResult(hetero_keys[k])
    /\ df_w # df
    /\ \E r \in df_w : r \notin df

----------------------------------------------------------------------------
(* Properties of winsorize_series *)

Returned == w_pc \in {"call2", "done"}

ValidPair == 0 <= lower /\ lower < upper /\ upper <= 100

\* C4: for a valid pair of fractions the returned column has the length of
\* the input; an entry below the lower quantile value becomes that value, an
\* entry above the upper quantile value becomes that value, any other entry
\* is kept; every entry that is there lies between the two quantile values
\* of the input; a column with one distinct value comes back unchanged.
C4_ClippedToQuantiles ==
    (Returned /\ ValidPair) =>
        LET ql == Quantile(s_in, lower)
            qh == Quantile(s_in, upper)
        IN  /\ Len(w1) = Len(s_in)
            /\ \A i \in 1..Len(s_in) :
                  /\ (s_in[i] # NA /\ s_in[i] < ql) => w1[i] = ql
                  /\ (s_in[i] # NA /\ s_in[i] > qh) => w1[i] = qh
                  /\ (s_in[i] = NA \/ (ql <= s_in[i] /\ s_in[i] <= qh)) => w1[i] = s_in[i]
                  /\ w1[i] # NA => (ql <= w1[i] /\ w1[i] <= qh)
            /\ Cardinality({s_in[i] : i \in NonNA(s_in)}) <= 1 => w1 = s_in

\* C4 witness: one entry raised, one lowered, one kept
C4_Witness ==
    /\ Returned /\ ValidPair
    /\ \E i, j, k \in 1..Len(s_in) :
          /\ s_in[i] # NA /\ w1[i] > s_in[i]
          /\ s_in[j] # NA /\ w1[j] < s_in[j]
          /\ s_in[k] # NA /\ w1[k] = s_in[k]

\* both quantile positions (n - 1) * fraction are whole numbers, n the number
\* of entries that are there
WholePositions ==
    LET n == Cardinality(NonNA(s_in))
    IN  n = 0 \/ ((lower * (n - 1)) % 100 = 0 /\ (upper * (n - 1)) % 100 = 0)

\* C5 (as claimed): winsorizing the winsorized column again, with the
\* quantile values taken anew from it, gives the same column.
C5_Idempotent == w_pc = "done" => w2 = w1

\* C5 (amended): clipping the winsorized column again to the quantile values
\* of the original column changes nothing; winsorizing it again with the
\* quantile values taken anew gives the same column when both quantile
\* positions are whole numbers (the quantile values are order statistics).
C5_IdempotentAtOrderStatistics ==
    w_pc = "done" =>
        /\ Clip(w1, Quantile(s_in, lower), Quantile(s_in, upper)) = w1
        /\ WholePositions => w2 = w1

\* C5 witness: whole positions, and the first call changed the column
C5_Witness == w_pc = "done" /\ WholePositions /\ w1 # s_in /\ w2 = w1

\* C6 (as claimed): a call with lower >= upper or with a fraction outside
\* [0, 1] is rejected with an error and returns no column.
C6_InvalidPairRejected ==
    (w_pc # "call1" /\ ~ValidPair) => (w_exc # "none" /\ ~Returned)

====
